---- MODULE Spec2Model ----
(***************************************************************************)
(* Model of the Miragic SDK repository: the MiragicSDK facade              *)
(* (miragic_sdk/core.py), the example configuration (examples/config.py),  *)
(* the command-line example (examples/cli_api_example.py) and the batch    *)
(* example (examples/api_usage_example.py), and the upload script          *)
(* (scripts/upload.py).                                                    *)
(*                                                                         *)
(* One behaviour is one Python process running one entry point (prog).     *)
(* Strings read from the environment are sequences of one-character        *)
(* strings; a float blur strength s is held as the integer 10*s.           *)
(***************************************************************************)
EXTENDS Integers, Sequences, FiniteSets, TLC

VARIABLES prog, pc, env, fs, config, valid, sdk, call, ncalls, proc, batch, upload

vars == <<prog, pc, env, fs, config, valid, sdk, call, ncalls, proc, batch, upload>>

(***************************************************************************)
(* Bounds                                                                  *)
(***************************************************************************)
MaxCalls == 2
MaxConfigOps == 2

(***************************************************************************)
(* Python values                                                           *)
(***************************************************************************)
\* an optional string: None, or a str (possibly empty)
PyNone == [none |-> TRUE, val |-> <<>>]
PyStr(s) == [none |-> FALSE, val |-> s]

\* truthiness of an optional string: None and "" are falsy
Truthy(v) == ~v.none /\ Len(v.val) > 0

Digits == {"0", "1", "2", "3", "4", "5", "6", "7", "8", "9"}

DigitVal(c) == CASE c = "0" -> 0 [] c = "1" -> 1 [] c = "2" -> 2 [] c = "3" -> 3
                 [] c = "4" -> 4 [] c = "5" -> 5 [] c = "6" -> 6 [] c = "7" -> 7
                 [] c = "8" -> 8 [] OTHER -> 9

\* int(s) of a string over the modelled alphabet: defined on non-empty digit strings
IntParses(s) == Len(s) > 0 /\ \A i \in 1..Len(s) : s[i] \in Digits

RECURSIVE IntValue(_)
IntValue(s) == IF Len(s) = 0 THEN 0
               ELSE 10 * IntValue(SubSeq(s, 1, Len(s) - 1)) + DigitVal(s[Len(s)])

(***************************************************************************)
(* Environment and file system                                             *)
(***************************************************************************)
ApiKeyEnvs == {PyNone, PyStr(<<>>), PyStr(<<"k">>)}
TimeoutEnvs == {PyNone, PyStr(<<"5">>), PyStr(<<"3", "0">>), PyStr(<<"x">>), PyStr(<<>>)}

Kinds == {"absent", "dir", "file"}

InputDir == "input"
OutputDir == "output"
BatchImages == <<"image1.jpg", "image2.jpg", "image3.jpg">>
OutputPaths == {"out.png", "out2.jpg"}
BatchOutputDir == "batch_output"
BatchOutputs == {"bg_removed_1.png", "blurred_1.jpg", "upscaled_1.jpg",
                 "bg_removed_2.png", "blurred_2.jpg", "upscaled_2.jpg",
                 "bg_removed_3.png", "blurred_3.jpg", "upscaled_3.jpg"}
Paths == {InputDir, OutputDir, BatchOutputDir, "photo.jpg", "notes.txt", "missing.jpg",
          "image1.jpg", "image2.jpg", "image3.jpg"} \cup OutputPaths \cup BatchOutputs

BaseFs == [p \in Paths |-> IF p \in {"photo.jpg", "notes.txt"} THEN "file"
                           ELSE IF p \in {InputDir, OutputDir} THEN "dir"
                           ELSE "absent"]

\* os.path.exists(p)
path_exists(fsx, p) == fsx[p] # "absent"

makedirs_without_exist_ok(fsx, p) ==
    IF fsx[p] # "absent" THEN [raised |-> TRUE, fs |-> fsx]
    ELSE [raised |-> FALSE, fs |-> [fsx EXCEPT ![p] = "dir"]]

\* os.makedirs(p, exist_ok=True): an existing non-directory raises FileExistsError
makedirs(fsx, p) ==
    IF fsx[p] = "file" THEN [raised |-> TRUE, fs |-> fsx]
    ELSE [raised |-> FALSE, fs |-> [fsx EXCEPT ![p] = "dir"]]

(***************************************************************************)
(* examples/config.py                                                      *)
(***************************************************************************)
DefaultBaseUrl == <<"u">>
DefaultTimeoutStr == <<"3", "0">>

NoConfig == [state |-> "unloaded", api_key |-> PyNone, api_base_url |-> <<>>,
             api_timeout |-> 0, input_dir |-> InputDir, output_dir |-> OutputDir,
             error |-> "none"]

\* os.getenv(name, default)
getenv(v, default) == IF v.none THEN default ELSE v.val

MiragicConfig_init_raising(e) ==
    IF e.api_key.none \/ ~IntParses(getenv(e.timeout, DefaultTimeoutStr))
    THEN [NoConfig EXCEPT !.state = "error", !.error = "ConfigurationError"]
    ELSE [NoConfig EXCEPT !.state = "loaded", !.api_key = e.api_key,
                          !.api_base_url = DefaultBaseUrl,
                          !.api_timeout = IntValue(getenv(e.timeout, DefaultTimeoutStr))]

\* MiragicConfig.__init__: the module-level config = MiragicConfig()
MiragicConfig_init(e) ==
    IF ~IntParses(getenv(e.timeout, DefaultTimeoutStr))
    THEN [NoConfig EXCEPT !.state = "error", !.error = "ValueError"]
    ELSE [NoConfig EXCEPT !.state = "loaded", !.api_key = e.api_key,
                          !.api_base_url = DefaultBaseUrl,
                          !.api_timeout = IntValue(getenv(e.timeout, DefaultTimeoutStr))]

\* MiragicConfig.validate
validate(c, fsx) ==
    IF ~Truthy(c.api_key) THEN FALSE
    ELSE IF ~path_exists(fsx, c.input_dir) THEN FALSE
    ELSE TRUE

\* MiragicConfig.setup_directories
setup_directories(c, fsx) ==
    LET first == makedirs(fsx, c.input_dir)
    IN IF first.raised THEN first ELSE makedirs(first.fs, c.output_dir)

\* MiragicConfig.get_sdk_config: the keys of the returned dict
get_sdk_config_keys == {"api_key", "use_api", "api_base_url"}

(***************************************************************************)
(* Feature clients (BackgroundRemover, ImageUpscaler, BlurBackground)      *)
(***************************************************************************)
SupportedExt == {".jpg", ".jpeg", ".png", ".bmp", ".tiff", ".webp"}

BytesInput == "<bytes>"
Inputs == {"photo.jpg", "notes.txt", "missing.jpg", BytesInput}

ExtOf(p) == CASE p = "notes.txt" -> ".txt"
              [] p = "out.png" -> ".png"
              [] OTHER -> ".jpg"

\* the one method each feature client offers
ClientMethod(client) == CASE client = "BackgroundRemover" -> "remove_background"
                          [] client = "ImageUpscaler" -> "upscale"
                          [] client = "BlurBackground" -> "apply_blur"
                          [] OTHER -> "none"

NoExtra == [given |-> FALSE, val |-> 0]
Given(v) == [given |-> TRUE, val |-> v]

EmptyKwargs == [k \in {} |-> 0]

\* One request handed to a feature client d = [client, method, input, output,
\* extra, kwargs]; remote is the answer of the remote service should it be asked.
\* Option ranges are not checked on the client side.
FeatureClient_call(fsx, d, remote) ==
    IF d.method # ClientMethod(d.client)
    THEN [outcome |-> "raised", value |-> "AttributeError", remote_calls |-> 0, written |-> "none"]
    ELSE IF d.input # BytesInput /\ fsx[d.input] # "file"
    THEN [outcome |-> "raised", value |-> "FileNotFoundError", remote_calls |-> 0, written |-> "none"]
    ELSE IF d.input # BytesInput /\ ExtOf(d.input) \notin SupportedExt
    THEN [outcome |-> "raised", value |-> "ValueError", remote_calls |-> 0, written |-> "none"]
    ELSE IF remote = "ok"
    THEN [outcome |-> "returned", value |-> d.output, remote_calls |-> 1, written |-> d.output]
    ELSE [outcome |-> "raised", value |-> "RemoteServiceError", remote_calls |-> 1, written |-> "none"]

\* calling an object that is a feature-client instance, not a function
FeatureClient_called_as_function ==
    [delegated |-> <<>>, outcome |-> "raised", value |-> "TypeError",
     remote_calls |-> 0, written |-> "none"]

(***************************************************************************)
(* miragic_sdk/core.py                                                     *)
(***************************************************************************)
NoSdk == [state |-> "none", api_key |-> PyNone,
          dict |-> [n \in {} |-> ""]]

\* the functions defined in the class body
ClassMethods == {"remove_background", "upscale_image", "blur_background", "get_version"}

BoundMethod(name) == "method " \o name

\* the feature clients __init__ stores on the instance (self.api_key is sdk.api_key)
InstanceDict ==
    [n \in {"background_remover", "image_upscaler", "blur_background"} |->
        CASE n = "background_remover" -> "BackgroundRemover"
          [] n = "image_upscaler" -> "ImageUpscaler"
          [] OTHER -> "BlurBackground"]

\* MiragicSDK.__init__(self, api_key=None) called with keyword names kwnames
MiragicSDK_init(kwnames, key) ==
    IF ~(kwnames \subseteq {"api_key"})
    THEN [NoSdk EXCEPT !.state = "TypeError"]
    ELSE [state |-> "constructed", api_key |-> IF "api_key" \in kwnames THEN key ELSE PyNone,
          dict |-> InstanceDict]

\* attribute lookup self.<name>: the instance dictionary comes before the
\* functions of the class
GetAttr(self, name) ==
    IF name \in DOMAIN self.dict THEN self.dict[name]
    ELSE IF name \in ClassMethods THEN BoundMethod(name)
    ELSE "AttributeError"

Request(client, method, input, output, extra, kwargs) ==
    [client |-> client, method |-> method, input |-> input, output |-> output,
     extra |-> extra, kwargs |-> kwargs]

Delegate(fsx, d, remote) ==
    LET r == FeatureClient_call(fsx, d, remote)
    IN [delegated |-> <<d>>, outcome |-> r.outcome, value |-> r.value,
        remote_calls |-> r.remote_calls, written |-> r.written]

MiragicSDK_remove_background_no_kwargs(self, fsx, a, remote) ==
    Delegate(fsx, Request(GetAttr(self, "background_remover"), "remove_background",
                          a.input, a.output, NoExtra, EmptyKwargs), remote)

\* MiragicSDK.remove_background
MiragicSDK_remove_background(self, fsx, a, remote) ==
    Delegate(fsx, Request(GetAttr(self, "background_remover"), "remove_background",
                          a.input, a.output, NoExtra, a.kwargs), remote)

\* MiragicSDK.upscale_image
MiragicSDK_upscale_image(self, fsx, a, remote) ==
    Delegate(fsx, Request(GetAttr(self, "image_upscaler"), "upscale",
                          a.input, a.output,
                          Given(IF a.extra.given THEN a.extra.val ELSE 2), a.kwargs), remote)

\* MiragicSDK.blur_background
MiragicSDK_blur_background(self, fsx, a, remote) ==
    Delegate(fsx, Request(GetAttr(self, "blur_background"), "apply_blur",
                          a.input, a.output,
                          Given(IF a.extra.given THEN a.extra.val ELSE 8), a.kwargs), remote)

\* the expression self.<name>(...) evaluated by a caller of the facade
Invoke(self, name, fsx, a, remote) ==
    LET target == GetAttr(self, name)
    IN IF target = "AttributeError"
       THEN [delegated |-> <<>>, outcome |-> "raised", value |-> "AttributeError",
             remote_calls |-> 0, written |-> "none"]
       ELSE IF target = BoundMethod("remove_background")
       THEN MiragicSDK_remove_background(self, fsx, a, remote)
       ELSE IF target = BoundMethod("upscale_image")
       THEN MiragicSDK_upscale_image(self, fsx, a, remote)
       ELSE IF target = BoundMethod("blur_background")
       THEN MiragicSDK_blur_background(self, fsx, a, remote)
       ELSE FeatureClient_called_as_function

Written(fsx, r) == IF r.written = "none" THEN fsx ELSE [fsx EXCEPT ![r.written] = "file"]

(***************************************************************************)
(* State                                                                   *)
(***************************************************************************)
Programs == {"lib", "config", "cli", "batch", "upload"}

NoArgs == [input |-> BytesInput, output |-> "out.png", extra |-> NoExtra, kwargs |-> EmptyKwargs]

NoCall == [op |-> "none", args |-> NoArgs, target |-> "none", delegated |-> <<>>,
           outcome |-> "none", value |-> "none", remote_calls |-> 0, written |-> "none"]

\* what the process has printed last, and how it ended
NoProc == [command |-> "none", args |-> NoArgs, out |-> "none", exit |-> -1,
           error |-> "none", op |-> "none"]

NoBatch == [reports |-> <<>>, completed |-> FALSE]

NotValidated == [called |-> FALSE, result |-> FALSE]

\* scripts/upload.py: what the working directory holds (pyproject.toml; dist
\* absent, a non-directory, an empty directory, or a directory with files),
\* the stripped answer to the menu, the upload commands run so far and
\* whether the second prompt was answered
DistStates == {"absent", "file", "empty", "files"}

NoUpload == [pyproject |-> FALSE, dist |-> "absent", chosen |-> FALSE, choice |-> <<>>,
             attempts |-> <<>>, confirmed |-> FALSE]

UploadsFor(p) ==
    IF p = "upload"
    THEN {[NoUpload EXCEPT !.pyproject = t, !.dist = d] : t \in BOOLEAN, d \in DistStates}
    ELSE {NoUpload}

Envs == [api_key : ApiKeyEnvs, timeout : TimeoutEnvs]
DefaultEnv == [api_key |-> PyNone, timeout |-> PyNone]

EnvsFor(p) == IF p \in {"config", "cli"} THEN Envs ELSE {DefaultEnv}

FsFor(p) ==
    IF p \in {"config", "cli"}
    THEN {[BaseFs EXCEPT ![InputDir] = i, ![OutputDir] = o] : i \in Kinds, o \in Kinds}
    ELSE IF p = "batch"
    THEN {[BaseFs EXCEPT ![BatchImages[1]] = a, ![BatchImages[2]] = b, ![BatchImages[3]] = c] :
             a \in {"absent", "file"}, b \in {"absent", "file"}, c \in {"absent", "file"}}
    ELSE {BaseFs}

StartOf(p) == CASE p = "lib" -> "lib_start"
                [] p = "batch" -> "batch_start"
                [] p = "upload" -> "upload_start"
                [] OTHER -> "import_config"

Init ==
    /\ prog \in Programs
    /\ pc = StartOf(prog)
    /\ env \in EnvsFor(prog)
    /\ fs \in FsFor(prog)
    /\ config = NoConfig
    /\ valid = NotValidated
    /\ sdk = NoSdk
    /\ call = NoCall
    /\ ncalls = 0
    /\ proc = NoProc
    /\ batch = NoBatch
    /\ upload \in UploadsFor(prog)

\* an exception no handler catches: the interpreter prints a traceback and
\* the process ends with status 1
Uncaught(p, exc) == [p EXCEPT !.out = "traceback", !.exit = 1, !.error = exc]

(***************************************************************************)
(* A program using the facade directly                                     *)
(***************************************************************************)
FacadeOps == {"remove_background", "upscale_image", "blur_background"}

KwargsFor(name) ==
    CASE name = "remove_background" ->
            {EmptyKwargs, "threshold" :> 128, "threshold" :> -1, "threshold" :> 256}
      [] name = "upscale_image" ->
            {EmptyKwargs, ("method" :> "lanczos") @@ ("sharpen" :> "True")}
      [] OTHER ->
            {EmptyKwargs, "center_focus" :> "True"}

ExtrasFor(name) ==
    CASE name = "remove_background" -> {NoExtra}
      [] name = "upscale_image" -> {NoExtra, Given(0), Given(2), Given(9)}
      [] OTHER -> {NoExtra, Given(-1), Given(8), Given(11)}

ArgsFor(name) ==
    [input : Inputs, output : OutputPaths, extra : ExtrasFor(name), kwargs : KwargsFor(name)]

CallRecord(name, self, a, r) ==
    [op |-> name, args |-> a, target |-> GetAttr(self, name), delegated |-> r.delegated,
     outcome |-> r.outcome, value |-> r.value, remote_calls |-> r.remote_calls,
     written |-> r.written]

\* sdk = MiragicSDK(...) with some keyword arguments
LibConstruct ==
    /\ prog = "lib" /\ pc = "lib_start"
    /\ \E kwnames \in SUBSET get_sdk_config_keys, key \in {PyNone, PyStr(<<"k">>)} :
          LET s == MiragicSDK_init(kwnames, key)
          IN /\ sdk' = s
             /\ IF s.state = "constructed"
                THEN pc' = "lib_ready" /\ proc' = proc
                ELSE pc' = "exit" /\ proc' = Uncaught(proc, "TypeError")
    /\ UNCHANGED <<upload, prog, env, fs, config, valid, call, ncalls, batch>>

self_after_storing_key(self, name) ==
    IF name = "remove_background" THEN [self EXCEPT !.api_key = PyNone] ELSE self

\* the facade object after one of its methods has run: remove_background,
\* upscale_image, blur_background and get_version assign to no attribute of
\* self, whether the delegate returns or raises
self_after(self, name) == self

\* sdk.<name>(input, output, ...) on the constructed facade
LibCall ==
    /\ prog = "lib" /\ pc = "lib_ready" /\ ncalls < MaxCalls
    /\ \E name \in FacadeOps :
        \E a \in ArgsFor(name), remote \in {"ok", "fail"} :
          LET r == Invoke(sdk, name, fs, a, remote)
          IN /\ call' = CallRecord(name, sdk, a, r)
             /\ fs' = Written(fs, r)
             /\ sdk' = self_after(sdk, name)
    /\ ncalls' = ncalls + 1
    /\ UNCHANGED <<upload, prog, pc, env, config, valid, proc, batch>>

\* sdk.get_version()
LibGetVersion ==
    /\ prog = "lib" /\ pc = "lib_ready" /\ ncalls < MaxCalls
    /\ call' = [NoCall EXCEPT !.op = "get_version", !.target = GetAttr(sdk, "get_version"),
                              !.outcome = "returned", !.value = "__version__"]
    /\ sdk' = self_after(sdk, "get_version")
    /\ ncalls' = ncalls + 1
    /\ UNCHANGED <<upload, prog, pc, env, fs, config, valid, proc, batch>>

(***************************************************************************)
(* import config  (config = MiragicConfig() at module level)               *)
(***************************************************************************)
ConfigLoad ==
    /\ pc = "import_config"
    /\ config' = MiragicConfig_init(env)
    /\ IF config'.state = "loaded"
       THEN /\ pc' = IF prog = "cli" THEN "cli_main" ELSE "config_ready"
            /\ proc' = proc
       ELSE /\ pc' = "exit"
            /\ proc' = Uncaught(proc, config'.error)
    /\ UNCHANGED <<upload, prog, env, fs, valid, sdk, call, ncalls, batch>>

\* config.validate() called by a program holding the configuration
ConfigValidate ==
    /\ prog = "config" /\ pc = "config_ready" /\ ncalls < MaxConfigOps
    /\ valid' = [called |-> TRUE, result |-> validate(config, fs)]
    /\ ncalls' = ncalls + 1
    /\ UNCHANGED <<upload, prog, pc, env, fs, config, sdk, call, proc, batch>>

\* config.setup_directories() called by a program holding the configuration
ConfigSetupDirectories ==
    /\ prog = "config" /\ pc = "config_ready" /\ ncalls < MaxConfigOps
    /\ LET r == setup_directories(config, fs)
       IN /\ fs' = r.fs
          /\ IF r.raised
             THEN pc' = "exit" /\ proc' = Uncaught(proc, "FileExistsError")
             ELSE pc' = pc /\ proc' = proc
    /\ ncalls' = ncalls + 1
    /\ UNCHANGED <<upload, prog, env, config, valid, sdk, call, batch>>

(***************************************************************************)
(* examples/cli_api_example.py                                             *)
(***************************************************************************)
Subcommands == {"remove-bg", "upscale", "blur-bg", "status", "usage"}

\* what argparse hands to the handlers: every option carries its default
CliArgsFor(cmd) ==
    CASE cmd = "remove-bg" ->
            [input : {"photo.jpg", "missing.jpg"}, output : {"out.png"}, extra : {NoExtra},
             kwargs : {"threshold" :> 128, "threshold" :> 256}]
      [] cmd = "upscale" ->
            [input : {"photo.jpg", "missing.jpg"}, output : {"out.png"},
             extra : {Given(2), Given(9)},
             kwargs : {("method" :> "lanczos") @@ ("sharpen" :> "False")}]
      [] cmd = "blur-bg" ->
            [input : {"photo.jpg", "missing.jpg"}, output : {"out.png"},
             extra : {Given(8), Given(11)},
             kwargs : {"center_focus" :> "False"}]
      [] OTHER -> {NoArgs}

\* the try block of each handler, given the facade setup_sdk returned
remove_background_command(s, fsx, a, remote) == Invoke(s, "remove_background", fsx, a, remote)
upscale_command(s, fsx, a, remote) == Invoke(s, "upscale_image", fsx, a, remote)
blur_background_command(s, fsx, a, remote) == Invoke(s, "blur_background", fsx, a, remote)
status_command(s, fsx, a, remote) == Invoke(s, "get_api_status", fsx, a, remote)
usage_command(s, fsx, a, remote) == Invoke(s, "get_usage_stats", fsx, a, remote)

FacadeNameOf(cmd) == CASE cmd = "remove-bg" -> "remove_background"
                       [] cmd = "upscale" -> "upscale_image"
                       [] cmd = "blur-bg" -> "blur_background"
                       [] cmd = "status" -> "get_api_status"
                       [] OTHER -> "get_usage_stats"

Dispatch(cmd, s, fsx, a, remote) ==
    CASE cmd = "remove-bg" -> remove_background_command(s, fsx, a, remote)
      [] cmd = "upscale" -> upscale_command(s, fsx, a, remote)
      [] cmd = "blur-bg" -> blur_background_command(s, fsx, a, remote)
      [] cmd = "status" -> status_command(s, fsx, a, remote)
      [] OTHER -> usage_command(s, fsx, a, remote)

\* main: parse_args and the test for a missing subcommand
CliMain ==
    /\ prog = "cli" /\ pc = "cli_main"
    /\ \E cmd \in Subcommands \cup {"none", "--version", "unknown"} :
        \E a \in CliArgsFor(cmd) :
          CASE cmd = "--version" ->
                 pc' = "exit" /\ proc' = [proc EXCEPT !.command = cmd, !.out = "version", !.exit = 0]
            [] cmd = "unknown" ->
                 pc' = "exit" /\ proc' = [proc EXCEPT !.command = cmd, !.out = "usage_error", !.exit = 2]
            [] cmd = "none" ->
                 pc' = "exit" /\ proc' = [proc EXCEPT !.command = cmd, !.out = "help", !.exit = 1]
            [] OTHER ->
                 pc' = "cli_validate" /\ proc' = [proc EXCEPT !.command = cmd, !.args = a]
    /\ UNCHANGED <<upload, prog, env, fs, config, valid, sdk, call, ncalls, batch>>

\* setup_sdk: if not config.validate(): sys.exit(1)
CliValidate ==
    /\ prog = "cli" /\ pc = "cli_validate"
    /\ valid' = [called |-> TRUE, result |-> validate(config, fs)]
    /\ IF valid'.result
       THEN pc' = "cli_setup_directories" /\ proc' = proc
       ELSE pc' = "exit" /\ proc' = [proc EXCEPT !.out = "validation_message", !.exit = 1]
    /\ UNCHANGED <<upload, prog, env, fs, config, sdk, call, ncalls, batch>>

\* setup_sdk: config.setup_directories()
CliSetupDirectories ==
    /\ prog = "cli" /\ pc = "cli_setup_directories"
    /\ LET r == setup_directories(config, fs)
       IN /\ fs' = r.fs
          /\ IF r.raised
             THEN pc' = "exit" /\ proc' = Uncaught(proc, "FileExistsError")
             ELSE pc' = "cli_command" /\ proc' = proc
    /\ UNCHANGED <<upload, prog, env, config, valid, sdk, call, ncalls, batch>>

\* setup_sdk: return MiragicSDK(**config.get_sdk_config()), then the handler's
\* try block and its except clause
CliCommand ==
    /\ prog = "cli" /\ pc = "cli_command"
    /\ LET s == MiragicSDK_init(get_sdk_config_keys, config.api_key)
       IN /\ sdk' = s
          /\ IF s.state # "constructed"
             THEN /\ proc' = Uncaught(proc, "TypeError")
                  /\ UNCHANGED <<call, fs>>
             ELSE \E remote \in {"ok", "fail"} :
                    LET r == Dispatch(proc.command, s, fs, proc.args, remote)
                    IN /\ call' = CallRecord(FacadeNameOf(proc.command), s, proc.args, r)
                       /\ fs' = Written(fs, r)
                       /\ proc' = IF r.outcome = "returned"
                                  THEN [proc EXCEPT !.out = "success", !.exit = 0,
                                                    !.op = "returned"]
                                  ELSE [proc EXCEPT !.out = "failure_message", !.exit = 1,
                                                    !.error = r.value, !.op = "raised"]
    /\ pc' = "exit"
    /\ UNCHANGED <<upload, prog, env, config, valid, ncalls, batch>>

(***************************************************************************)
(* examples/api_usage_example.py: batch_processing_example                 *)
(***************************************************************************)
ExampleApiKey == PyStr(<<"k">>)

BatchOut(kind, i) ==
    CASE kind = "bg_removed" ->
            (CASE i = 1 -> "bg_removed_1.png" [] i = 2 -> "bg_removed_2.png"
               [] OTHER -> "bg_removed_3.png")
      [] kind = "blurred" ->
            (CASE i = 1 -> "blurred_1.jpg" [] i = 2 -> "blurred_2.jpg"
               [] OTHER -> "blurred_3.jpg")
      [] OTHER ->
            (CASE i = 1 -> "upscaled_1.jpg" [] i = 2 -> "upscaled_2.jpg"
               [] OTHER -> "upscaled_3.jpg")

BatchArgs(img, out, extra) == [input |-> img, output |-> out, extra |-> extra,
                               kwargs |-> EmptyKwargs]

\* the body of the for loop for item i: the skip test, then the three calls
\* inside one try; remotes[k] is the remote answer to the k-th call
batch_item(s, fsx, i, remotes) ==
    LET img == BatchImages[i]
        r1 == Invoke(s, "remove_background", fsx,
                     BatchArgs(img, BatchOut("bg_removed", i), NoExtra), remotes[1])
        f1 == Written(fsx, r1)
        r2 == Invoke(s, "blur_background", f1,
                     BatchArgs(img, BatchOut("blurred", i), Given(6)), remotes[2])
        f2 == Written(f1, r2)
        r3 == Invoke(s, "upscale_image", f2,
                     BatchArgs(img, BatchOut("upscaled", i), Given(2)), remotes[3])
        f3 == Written(f2, r3)
    IN IF ~path_exists(fsx, img)
       THEN [report |-> [item |-> i, status |-> "skipped", attempted |-> 0], fs |-> fsx]
       ELSE IF r1.outcome # "returned"
       THEN [report |-> [item |-> i, status |-> "failed", attempted |-> 1], fs |-> f1]
       ELSE IF r2.outcome # "returned"
       THEN [report |-> [item |-> i, status |-> "failed", attempted |-> 2], fs |-> f2]
       ELSE IF r3.outcome # "returned"
       THEN [report |-> [item |-> i, status |-> "failed", attempted |-> 3], fs |-> f3]
       ELSE [report |-> [item |-> i, status |-> "completed", attempted |-> 3], fs |-> f3]

\* the for loop from item i on
RECURSIVE batch_loop(_, _, _, _)
batch_loop(s, fsx, i, remotes) ==
    IF i > Len(BatchImages) THEN [reports |-> <<>>, fs |-> fsx]
    ELSE LET one == batch_item(s, fsx, i, remotes[i])
             rest == batch_loop(s, one.fs, i + 1, remotes)
         IN [reports |-> <<one.report>> \o rest.reports, fs |-> rest.fs]

\* batch_processing_example: the constructor call, os.makedirs, the loop and
\* the final message
BatchRun ==
    /\ prog = "batch" /\ pc = "batch_start"
    /\ LET s == MiragicSDK_init({"api_key", "use_api"}, ExampleApiKey)
       IN /\ sdk' = s
          /\ IF s.state # "constructed"
             THEN /\ proc' = Uncaught(proc, "TypeError")
                  /\ UNCHANGED <<batch, fs>>
             ELSE LET d == makedirs(fs, BatchOutputDir)
                  IN IF d.raised
                     THEN /\ proc' = Uncaught(proc, "FileExistsError")
                          /\ UNCHANGED <<batch, fs>>
                     ELSE \E remotes \in [1..Len(BatchImages) -> [1..3 -> {"ok", "fail"}]] :
                            LET l == batch_loop(s, d.fs, 1, remotes)
                            IN /\ batch' = [reports |-> l.reports, completed |-> TRUE]
                               /\ fs' = l.fs
                               /\ proc' = [proc EXCEPT !.out = "batch_completed", !.exit = 0]
    /\ pc' = "exit"
    /\ UNCHANGED <<upload, prog, env, config, valid, call, ncalls>>

(***************************************************************************)
(* scripts/upload.py                                                       *)
(***************************************************************************)
\* str.strip() over the modelled alphabet: drops leading and trailing blanks
RECURSIVE strip(_)
strip(t) ==
    IF Len(t) = 0 THEN t
    ELSE IF t[1] = " " THEN strip(Tail(t))
    ELSE IF t[Len(t)] = " " THEN strip(SubSeq(t, 1, Len(t) - 1))
    ELSE t

\* a line read by input(): end of input raises EOFError
EndOfInput == [eof |-> TRUE, text |-> <<>>]
Line(t) == [eof |-> FALSE, text |-> t]

MenuAnswers == {EndOfInput, Line(<<"1">>), Line(<<" ", "2">>), Line(<<"3", " ">>),
                Line(<<"2">>), Line(<<"x">>), Line(<<>>), Line(<<"1", "2">>), Line(<<" ">>)}

\* check_dist_files: dist must exist and glob('*') must find something
check_dist_files(dist) ==
    IF dist = "absent" THEN FALSE
    ELSE IF dist # "files" THEN FALSE
    ELSE TRUE

\* run_command: True when the subprocess ended with status 0, False when
\* subprocess.run raised CalledProcessError
run_command(status) == status = 0

Attempt(repo, ok) == [repo |-> repo, ok |-> ok]

\* main: the if/elif chain on the stripped choice
main_after_choice(choice) ==
    CASE choice = <<"1">> -> "upload_testpypi"
      [] choice = <<"2">> -> "upload_pypi"
      [] choice = <<"3">> -> "upload_testpypi"
      [] OTHER -> "exit"

main_after_testpypi_unchecked(choice, ok) ==
    IF choice = <<"1">> THEN (IF ok THEN "success" ELSE "exit") ELSE "upload_confirm"

\* main: what follows upload_to_testpypi() under choices 1 and 3
main_after_testpypi(choice, ok) ==
    IF ~ok THEN "exit"
    ELSE IF choice = <<"1">> THEN "success"
    ELSE "upload_confirm"

Finish(p, where) ==
    CASE where = "success" -> [p EXCEPT !.out = "upload_success", !.exit = 0]
      [] where = "exit" -> [p EXCEPT !.out = "upload_failure", !.exit = 1]
      [] OTHER -> p

PcOf(where) == IF where \in {"success", "exit"} THEN "exit" ELSE where

\* main: the pyproject.toml test
UploadCheckProject ==
    /\ prog = "upload" /\ pc = "upload_start"
    /\ IF upload.pyproject
       THEN pc' = "upload_check_dist" /\ proc' = proc
       ELSE pc' = "exit" /\ proc' = Finish(proc, "exit")
    /\ UNCHANGED <<upload, prog, env, fs, config, valid, sdk, call, ncalls, batch>>

\* main: if not check_dist_files(): sys.exit(1)
UploadCheckDist ==
    /\ prog = "upload" /\ pc = "upload_check_dist"
    /\ IF check_dist_files(upload.dist)
       THEN pc' = "upload_choose" /\ proc' = proc
       ELSE pc' = "exit" /\ proc' = Finish(proc, "exit")
    /\ UNCHANGED <<upload, prog, env, fs, config, valid, sdk, call, ncalls, batch>>

\* main: choice = input(...).strip() and the branch taken
UploadChoose ==
    /\ prog = "upload" /\ pc = "upload_choose"
    /\ \E answer \in MenuAnswers :
          IF answer.eof
          THEN /\ pc' = "exit" /\ proc' = Uncaught(proc, "EOFError")
               /\ upload' = upload
          ELSE LET choice == strip(answer.text)
                   where == main_after_choice(choice)
               IN /\ upload' = [upload EXCEPT !.chosen = TRUE, !.choice = choice]
                  /\ pc' = PcOf(where)
                  /\ proc' = Finish(proc, where)
    /\ UNCHANGED <<prog, env, fs, config, valid, sdk, call, ncalls, batch>>

\* upload_to_testpypi() and the test of its result
UploadTestPyPI ==
    /\ prog = "upload" /\ pc = "upload_testpypi"
    /\ \E status \in {0, 1} :
          LET ok == run_command(status)
              where == main_after_testpypi(upload.choice, ok)
          IN /\ upload' = [upload EXCEPT !.attempts = Append(@, Attempt("testpypi", ok))]
             /\ pc' = PcOf(where)
             /\ proc' = Finish(proc, where)
    /\ UNCHANGED <<prog, env, fs, config, valid, sdk, call, ncalls, batch>>

\* main: input("Press Enter to continue with PyPI upload...")
UploadConfirm ==
    /\ prog = "upload" /\ pc = "upload_confirm"
    /\ \E answer \in {EndOfInput, Line(<<>>)} :
          IF answer.eof
          THEN /\ pc' = "exit" /\ proc' = Uncaught(proc, "EOFError")
               /\ upload' = upload
          ELSE /\ pc' = "upload_pypi" /\ proc' = proc
               /\ upload' = [upload EXCEPT !.confirmed = TRUE]
    /\ UNCHANGED <<prog, env, fs, config, valid, sdk, call, ncalls, batch>>

\* upload_to_pypi() and the test of its result, then the success message
UploadPyPI ==
    /\ prog = "upload" /\ pc = "upload_pypi"
    /\ \E status \in {0, 1} :
          LET ok == run_command(status)
          IN /\ upload' = [upload EXCEPT !.attempts = Append(@, Attempt("pypi", ok))]
             /\ proc' = Finish(proc, IF ok THEN "success" ELSE "exit")
    /\ pc' = "exit"
    /\ UNCHANGED <<prog, env, fs, config, valid, sdk, call, ncalls, batch>>

(***************************************************************************)
(* Specification                                                           *)
(***************************************************************************)
Next ==
    \/ LibConstruct
    \/ LibCall
    \/ LibGetVersion
    \/ ConfigLoad
    \/ ConfigValidate
    \/ ConfigSetupDirectories
    \/ CliMain
    \/ CliValidate
    \/ CliSetupDirectories
    \/ CliCommand
    \/ BatchRun
    \/ UploadCheckProject
    \/ UploadCheckDist
    \/ UploadChoose
    \/ UploadTestPyPI
    \/ UploadConfirm
    \/ UploadPyPI

Spec == Init /\ [][Next]_vars

(***************************************************************************)
(* Properties                                                              *)
(***************************************************************************)
Ended == pc = "exit"

\* the request a facade call with arguments a hands to its feature client
Forwarded(client, method, a, default) ==
    Request(client, method, a.input, a.output,
            IF default = 0 THEN NoExtra
            ELSE Given(IF a.extra.given THEN a.extra.val ELSE default),
            a.kwargs)

\* C1: sdk.blur_background(input, output, blur_strength, options) on a
\* constructed facade resolves to the facade's method, which hands the same
\* input, output, blur_strength (0.8 when omitted) and options to the blur
\* client's apply_blur, exactly once.
C1_BlurBackgroundDelegates ==
    call.op = "blur_background" =>
        /\ call.target = BoundMethod("blur_background")
        /\ call.delegated = <<Forwarded("BlurBackground", "apply_blur", call.args, 8)>>

\* C2: a command-line run whose validation passed (and whose directory setup
\* did not raise) gets from setup_sdk a constructed facade holding the three
\* feature clients.
C2_SetupSdkReturnsFacade ==
    (prog = "cli" /\ Ended /\ valid.called /\ valid.result
        /\ proc.error # "FileExistsError") =>
        /\ sdk.state = "constructed"
        /\ {sdk.dict[n] : n \in DOMAIN sdk.dict}
              = {"BackgroundRemover", "ImageUpscaler", "BlurBackground"}

\* C3: remove_background and upscale_image each invoke their own feature
\* client exactly once with the caller's input, output and keyword options
\* (and scale_factor, 2 when omitted), and a call that returns returns the
\* caller's output path.
C3_ForwardUnchanged ==
    /\ call.op = "remove_background" =>
          /\ call.target = BoundMethod("remove_background")
          /\ call.delegated =
                <<Forwarded("BackgroundRemover", "remove_background", call.args, 0)>>
          /\ (call.outcome = "returned" => call.value = call.args.output)
    /\ call.op = "upscale_image" =>
          /\ call.target = BoundMethod("upscale_image")
          /\ call.delegated = <<Forwarded("ImageUpscaler", "upscale", call.args, 2)>>
          /\ (call.outcome = "returned" => call.value = call.args.output)

\* a successful upscale_image call made without scale_factor and with options
C3_Witness ==
    /\ call.op = "upscale_image"
    /\ ~call.args.extra.given
    /\ call.args.kwargs # EmptyKwargs
    /\ call.outcome = "returned"
    /\ call.delegated[1].extra = Given(2)

C5_BatchVisitsAllAndCompletes ==
    (prog = "batch" /\ Ended) =>
        /\ batch.completed
        /\ Len(batch.reports) = Len(BatchImages)
        /\ \A i \in 1..Len(batch.reports) : batch.reports[i].item = i

\* C6: with the first and third input present and the second missing, the
\* batch run goes on to process the third input and reports exactly one
\* failure.
C6_SecondMissingOneFailure ==
    (prog = "batch" /\ Ended /\ fs[BatchImages[1]] = "file"
        /\ fs[BatchImages[2]] = "absent" /\ fs[BatchImages[3]] = "file") =>
        /\ batch.completed
        /\ Len(batch.reports) = 3
        /\ batch.reports[3].attempted > 0
        /\ Cardinality({i \in 1..3 : batch.reports[i].status \in {"failed", "skipped"}}) = 1

\* C7: a facade operation called with a missing input file raises the
\* input-not-found error and no remote call is made.
C7_MissingInputNotFound ==
    (call.op \in FacadeOps /\ call.args.input = "missing.jpg") =>
        /\ call.outcome = "raised"
        /\ call.value = "FileNotFoundError"
        /\ call.remote_calls = 0

OutOfRange(c) ==
    \/ /\ c.op = "remove_background"
       /\ "threshold" \in DOMAIN c.args.kwargs
       /\ c.args.kwargs["threshold"] \notin 0..255
    \/ c.op = "upscale_image" /\ c.args.extra.given /\ c.args.extra.val \notin 1..8
    \/ c.op = "blur_background" /\ c.args.extra.given /\ c.args.extra.val \notin 0..10

\* C8: an operation given an out-of-range threshold, scale_factor or
\* blur_strength (with a readable input of a supported format) raises
\* ValueError and no remote call is made.
C8_OutOfRangeRejected ==
    (OutOfRange(call) /\ call.args.input = "photo.jpg") =>
        /\ call.outcome = "raised"
        /\ call.value = "ValueError"
        /\ call.remote_calls = 0

\* C9 (as stated): once the configuration has been loaded with
\* MIRAGIC_API_KEY absent the load has failed with ConfigurationError, and a
\* configuration object has a non-empty api_key.
C9_LoadRequiresApiKey ==
    /\ (config.state # "unloaded" /\ env.api_key.none) =>
          (config.state = "error" /\ config.error = "ConfigurationError")
    /\ config.state = "loaded" => Truthy(config.api_key)

\* C9 (amended): loading never fails for want of MIRAGIC_API_KEY: when
\* MIRAGIC_API_TIMEOUT is unset or parses as an integer the configuration
\* object exists and its api_key is what the environment holds (None when the
\* variable is absent); otherwise the load fails with ValueError.
C9_LoadKeepsApiKey ==
    config.state # "unloaded" =>
        IF env.timeout.none \/ IntParses(env.timeout.val)
        THEN config.state = "loaded" /\ config.api_key = env.api_key
        ELSE config.state = "error" /\ config.error = "ValueError"

\* a configuration object loaded without MIRAGIC_API_KEY
C9_Witness == config.state = "loaded" /\ env.api_key.none /\ config.api_key.none

\* C10: validate() returns false exactly when the API key is missing or
\* empty or the input directory does not exist, and changes neither the
\* configuration nor the file system.
C10_ValidateExactly ==
    [][(ConfigValidate \/ CliValidate) =>
          /\ valid'.result = ~(config.api_key.none \/ config.api_key.val = <<>>
                                 \/ fs[config.input_dir] # "dir")
          /\ config' = config
          /\ fs' = fs]_vars

\* config.setup_directories() has been called, and nothing else, k times or more
SetupCalls(k) == prog = "config" /\ config.state = "loaded" /\ ~valid.called /\ ncalls >= k

\* C11 (as stated): from any initial file system, after one call of
\* setup_directories the input and the output directory both exist and the
\* call has not raised.
C11_AlwaysCreatesBoth ==
    SetupCalls(1) =>
        /\ ~Ended
        /\ fs[config.input_dir] = "dir"
        /\ fs[config.output_dir] = "dir"

\* C11 (amended): a call of setup_directories made while neither path is
\* occupied by a non-directory succeeds, leaves both directories in place and
\* touches nothing else, and a call made when both directories exist leaves
\* the file system as it is; a call made while a non-directory occupies the
\* input or the output path raises FileExistsError, having created at most
\* the input directory.
C11_SetupDirectoriesIdempotent ==
    [][ConfigSetupDirectories =>
          IF fs[config.input_dir] = "file" \/ fs[config.output_dir] = "file"
          THEN /\ pc' = "exit" /\ proc'.error = "FileExistsError"
               /\ \A p \in Paths \ {config.input_dir} : fs'[p] = fs[p]
               /\ fs'[config.input_dir] = (IF fs[config.input_dir] = "file" THEN "file" ELSE "dir")
          ELSE /\ pc' = pc /\ proc' = proc
               /\ fs'[config.input_dir] = "dir" /\ fs'[config.output_dir] = "dir"
               /\ \A p \in Paths \ {config.input_dir, config.output_dir} : fs'[p] = fs[p]
               /\ (fs[config.input_dir] = "dir" /\ fs[config.output_dir] = "dir" => fs' = fs)]_vars

\* setup_directories has been called twice in a row and both calls succeeded
C11_Witness ==
    /\ SetupCalls(2) /\ ~Ended
    /\ fs[config.input_dir] = "dir" /\ fs[config.output_dir] = "dir"

\* C12: a call of remove_background, upscale_image, blur_background or
\* get_version, returning or raising, leaves the facade's api_key and its
\* three feature-client references as they were, so after any sequence of
\* calls they are what the constructor set.
C12_FacadeStateUnchanged ==
    [][(prog = "lib" /\ pc = "lib_ready" /\ ncalls' = ncalls + 1) =>
          /\ sdk'.api_key = sdk.api_key
          /\ sdk'.dict = sdk.dict
          /\ sdk'.dict = InstanceDict]_vars

\* two calls have been made on a facade constructed with a key, the last one
\* raised, and the key is still there
C12_Witness ==
    /\ prog = "lib" /\ ncalls >= 2
    /\ call.outcome = "raised"
    /\ sdk.state = "constructed" /\ ~sdk.api_key.none

\* C13: in a command-line run of a subcommand whose input directory does not
\* exist (on this path the file system changes only in setup_directories, so
\* this is its state at start), setup_directories is never reached or
\* executed, the facade constructor is never called, and the run ends with a
\* non-zero status.
C13_NoSetupWithoutInputDir ==
    (prog = "cli" /\ proc.command \in Subcommands /\ fs[InputDir] # "dir") =>
        /\ pc \notin {"cli_setup_directories", "cli_command"}
        /\ proc.error # "FileExistsError"
        /\ sdk.state = "none"
        /\ (Ended => proc.exit # 0)

ReportsFor(i) == {k \in 1..Len(batch.reports) : batch.reports[k].item = i}

\* C14: when the batch run has ended, every input has exactly one report,
\* 'skipped', 'completed' or 'failed'; a missing input is skipped with no
\* operation attempted, a completed input had all three operations
\* (remove_background, blur_background, upscale_image, in that order)
\* attempted, and a failed input stopped at the first operation that raised.
C14_OneReportPerInput ==
    (prog = "batch" /\ Ended) =>
        \A i \in 1..Len(BatchImages) :
            /\ Cardinality(ReportsFor(i)) = 1
            /\ \A k \in ReportsFor(i) :
                  /\ batch.reports[k].status \in {"skipped", "completed", "failed"}
                  /\ batch.reports[k].status = "skipped" => batch.reports[k].attempted = 0
                  /\ batch.reports[k].status = "completed" => batch.reports[k].attempted = 3
                  /\ batch.reports[k].status = "failed" => batch.reports[k].attempted \in 1..3

ValidChoices == {<<"1">>, <<"2">>, <<"3">>}

\* C15: the upload script runs an upload command only when pyproject.toml
\* exists and dist exists and is not empty; under choice 3 the PyPI upload is
\* run only second, after a TestPyPI upload that succeeded and after the
\* prompt was answered; the script ends with status 0 only after its success
\* message, with every upload it ran successful; and it ends with status 1
\* after any failed upload or an invalid choice.
C15_UploadGuarded ==
    prog = "upload" =>
        /\ Len(upload.attempts) > 0 => (upload.pyproject /\ upload.dist = "files")
        /\ \A k \in 1..Len(upload.attempts) :
              (upload.attempts[k].repo = "pypi" /\ upload.choice = <<"3">>) =>
                  /\ k = 2
                  /\ upload.attempts[1] = Attempt("testpypi", TRUE)
                  /\ upload.confirmed
        /\ (Ended /\ proc.exit = 0) =>
              /\ proc.out = "upload_success"
              /\ Len(upload.attempts) > 0
              /\ \A k \in 1..Len(upload.attempts) : upload.attempts[k].ok
        /\ (Ended /\ ((\E k \in 1..Len(upload.attempts) : ~upload.attempts[k].ok)
                       \/ (upload.chosen /\ upload.choice \notin ValidChoices))) =>
              proc.exit = 1

\* choice 3 carried through: both uploads ran and succeeded, status 0
C15_Witness ==
    /\ prog = "upload" /\ Ended /\ proc.exit = 0
    /\ upload.choice = <<"3">>
    /\ Len(upload.attempts) = 2

====
